---- MODULE Spec2Model ----
(***************************************************************************)
(* Model of gerbil_gui's two core classes:                                 *)
(*   - classes/item.py  : Item.append / Item.upload and the G-code          *)
(*                        interpreter in GcodePath.__init__                 *)
(*   - classes/rs232.py : the RS232 serial channel (start, stop, cleanup,   *)
(*                        write, receiving, handle_data)                    *)
(* Text is modelled as sequences of one-character strings so that the      *)
(* regular expressions and str.strip() of the source are computed           *)
(* character by character.  Coordinates are fixed-point numbers in tenths.  *)
(***************************************************************************)
EXTENDS Integers, Sequences, FiniteSets, TLC

VARIABLES
    \* ---- GcodePath.__init__ (item.py) ----
    gcode,          \* argument gcode: the program, a sequence of lines
    cwpos,          \* argument cwpos: current working position
    ccs,            \* argument ccs: current coordinate system
    pos,            \* local pos
    cs,             \* local cs
    offset,         \* local offset
    motion,         \* local motion
    col,            \* local col (<<>> before the loop binds it)
    data,           \* self.data: array of [position, color]
    elementcount,   \* self.elementcount
    line_no,        \* number of program lines the for loop has completed
    gpc,            \* position in __init__: start, loop, done, error
    \* ---- RS232.handle_data called directly (rs232.py) ----
    stream,         \* the byte stream to be fed
    fed,            \* number of its bytes passed to handle_data so far
    n_chunks,       \* number of handle_data calls made so far
    buf_receive,    \* self.buf_receive (of the object in the owning process)
    cb_calls,       \* the arguments self.cb was invoked with, in order
    \* ---- RS232 channel, its reader processes and the device (rs232.py) ----
    serialport,     \* self.serialport: none (attribute not set), open, closed
    serial_process, \* self.serial_process: index into procs, 0 = not set
    procs,          \* the reader processes launched so far, in order
    rx,             \* bytes received by the device and not yet read
    arrived,        \* number of bytes that have arrived so far
    device_gone,    \* the device has disappeared
    tx,             \* what was written to the device: [data, by]
    cpc,            \* position of the owning process in start() / stop()
    last_call,      \* the method the owner called last: [op, arg]
    last_exc,       \* the exception that call raised, or none
    touched,        \* whether that call evaluated self.serialport
    diag,           \* the last distinguishing log record of that call
    isalive,        \* local isalive of stop()
    stop_ops,       \* operations the current or last stop() has performed
    n_calls,        \* number of method calls made by the owner
    \* ---- history of the channel (records what happened, steers nothing) ----
    n_starts,       \* number of start() calls made so far
    rx_at,          \* for each byte of rx, the value of n_starts when it arrived
    pstamp,         \* for each reader process: [since, buf_stale, data_stale, dropped]
                    \*   since: the value of n_starts when it was launched
                    \*   buf_stale, data_stale: for each byte of buf and of data,
                    \*     whether it arrived before the start() that launched it
                    \*   dropped: it ended holding bytes it had not delivered
    cb_by,          \* for each callback invocation, the reader that made it
    stale_flushed   \* flushInput has discarded a byte that arrived before its start()

gvars == <<gcode, cwpos, ccs, pos, cs, offset, motion, col, data,
           elementcount, line_no, gpc>>

fvars == <<stream, fed, n_chunks>>

rvars == <<buf_receive, cb_calls>>

svars == <<serialport, serial_process, procs, rx, arrived, device_gone, tx,
           cpc, last_call, last_exc, touched, diag, isalive, stop_ops, n_calls>>

svarsButProcs == <<serialport, serial_process, rx, arrived, device_gone, tx,
                   cpc, last_call, last_exc, touched, diag, isalive, stop_ops, n_calls>>

hvars == <<n_starts, rx_at, pstamp, cb_by, stale_flushed>>

vars == <<gvars, fvars, rvars, svars, hvars>>

(***************************************************************************)
(* Bounds                                                                  *)
(***************************************************************************)
\* longest program enumerated exhaustively over LineSet
MaxProg == 2

\* longest byte stream enumerated exhaustively over StreamChars
MaxStream == 4

\* number of method calls the owner makes on one channel
MaxCalls == 3

\* number of bytes the device receives
MaxArrive == 2

(***************************************************************************)
(* Generic helpers                                                         *)
(***************************************************************************)
SeqsUpTo(S, n) == UNION {[1..k -> S] : k \in 0..n}

Max(S) == CHOOSE m \in S : \A z \in S : z <= m

\* fixed-point: coordinates are kept in tenths
Fixed(n) == n * 10

VecAdd(a, b) == [i \in 1..3 |-> a[i] + b[i]]

\* values of the interpreter's variables while another component is exercised
GIdle ==
    /\ gcode = <<>>
    /\ cwpos = <<0, 0, 0>>
    /\ ccs = "G54"
    /\ pos = <<0, 0, 0>>
    /\ cs = "G54"
    /\ offset = <<0, 0, 0>>
    /\ motion = ""
    /\ col = <<>>
    /\ data = <<>>
    /\ elementcount = 0
    /\ line_no = 0
    /\ gpc = "done"

(***************************************************************************)
(* RS232.handle_data (line framing)                                        *)
(***************************************************************************)
LF == "\n"

CR == "\r"

\* the characters str.strip() removes
Whitespace == {" ", "\t", "\n", "\r", "\f"}

\* str.strip(): drop leading and trailing whitespace
strip(s) ==
    LET keep == {k \in 1..Len(s) : s[k] \notin Whitespace}
    IN  IF keep = {} THEN <<>>
        ELSE SubSeq(s, CHOOSE a \in keep : \A z \in keep : a <= z, Max(keep))

handle_data_noreset(buf, calls, d) ==
    LET F[k \in 0..Len(d)] ==
            IF k = 0 THEN [buf |-> buf, calls |-> calls]
            ELSE LET b == F[k - 1].buf \o <<d[k]>>
                 IN  IF d[k] = LF
                     THEN [buf |-> b, calls |-> Append(F[k - 1].calls, strip(b))]
                     ELSE [buf |-> b, calls |-> F[k - 1].calls]
    IN  F[Len(d)]

\* handle_data(data) applied to self.buf_receive = buf, with calls the
\* callback invocations made so far; F[k] is the state after loop pass k
handle_data(buf, calls, d) ==
    LET F[k \in 0..Len(d)] ==
            IF k = 0 THEN [buf |-> buf, calls |-> calls]
            ELSE LET b == F[k - 1].buf \o <<d[k]>>
                 IN  IF d[k] = LF
                     THEN [buf |-> <<>>, calls |-> Append(F[k - 1].calls, strip(b))]
                     ELSE [buf |-> b, calls |-> F[k - 1].calls]
    IN  F[Len(d)]

StreamChars == {"o", "k", " ", CR, LF}

\* the streams quoted in the specification
StreamOk == <<"o", "k", CR, LF>>

StreamOkAlarm == <<"o", "k", CR, LF, "a", "l", "a", "r", "m", CR, LF>>

Streams == SeqsUpTo(StreamChars, MaxStream) \cup {StreamOk, StreamOkAlarm}

\* values of the channel's variables while another component is exercised
SIdle ==
    /\ serialport = "none"
    /\ serial_process = 0
    /\ procs = <<>>
    /\ rx = <<>>
    /\ arrived = 0
    /\ device_gone = FALSE
    /\ tx = <<>>
    /\ cpc = "idle"
    /\ last_call = [op |-> "init", arg |-> <<>>]
    /\ last_exc = "none"
    /\ touched = FALSE
    /\ diag = "none"
    /\ isalive = FALSE
    /\ stop_ops = <<>>
    /\ n_calls = 0
    /\ n_starts = 0
    /\ rx_at = <<>>
    /\ pstamp = <<>>
    /\ cb_by = <<>>
    /\ stale_flushed = FALSE

\* values of the framing variables while another component is exercised
FIdle == stream = <<>> /\ fed = 0 /\ n_chunks = 0

RIdle == buf_receive = <<>> /\ cb_calls = <<>>

\* RS232.__init__ and the choice of the stream
FInit ==
    /\ stream \in Streams
    /\ fed = 0
    /\ n_chunks = 0
    /\ buf_receive = <<>>
    /\ cb_calls = <<>>
    /\ GIdle
    /\ SIdle

\* one call handle_data(data), data being the next n bytes of the stream
FeedChunk ==
    /\ fed < Len(stream)
    /\ \E n \in 1..(Len(stream) - fed) :
          LET r == handle_data(buf_receive, cb_calls, SubSeq(stream, fed + 1, fed + n))
          IN  /\ buf_receive' = r.buf
              /\ cb_calls' = r.calls
              /\ fed' = fed + n
    /\ n_chunks' = n_chunks + 1
    /\ UNCHANGED <<stream, gvars, svars, hvars>>

FNext == FeedChunk

SpecFramer == FInit /\ [][FNext]_vars

(***************************************************************************)
(* Characters and number parsing (Python float())                          *)
(***************************************************************************)
Digits == {"0", "1", "2", "3", "4", "5", "6", "7", "8", "9"}

\* the character class [-.\d]
NumChars == Digits \cup {"-", "."}

DigitVal(c) ==
    CASE c = "0" -> 0 [] c = "1" -> 1 [] c = "2" -> 2 [] c = "3" -> 3
      [] c = "4" -> 4 [] c = "5" -> 5 [] c = "6" -> 6 [] c = "7" -> 7
      [] c = "8" -> 8 [] c = "9" -> 9

RECURSIVE NatOf(_)
NatOf(s) == IF s = <<>> THEN 0
            ELSE NatOf(SubSeq(s, 1, Len(s) - 1)) * 10 + DigitVal(s[Len(s)])

Count(s, c) == Cardinality({k \in 1..Len(s) : s[k] = c})

\* float(s) for s over [-.\d]: accepted are -?(\d+\.?\d*|\.\d+); anything
\* else raises ValueError.  The value is returned in tenths; the lines of
\* this model carry at most one fractional digit, so no digit is dropped.
ParseFloat(s) ==
    LET neg  == s # <<>> /\ s[1] = "-"
        body == IF neg THEN Tail(s) ELSE s
        dots == {k \in 1..Len(body) : body[k] = "."}
        dot  == IF dots = {} THEN Len(body) + 1 ELSE Max(dots)
        ip   == SubSeq(body, 1, dot - 1)
        fp   == SubSeq(body, dot + 1, Len(body))
        ok   == /\ Count(body, "-") = 0
                /\ Cardinality(dots) <= 1
                /\ Len(ip) + Len(fp) >= 1
        mag  == NatOf(ip) * 10 + (IF fp = <<>> THEN 0 ELSE DigitVal(fp[1]))
    IN  IF ok THEN [ok |-> TRUE, val |-> IF neg THEN 0 - mag ELSE mag]
        ELSE [ok |-> FALSE, val |-> 0]

(***************************************************************************)
(* The regular expressions of GcodePath.__init__                           *)
(***************************************************************************)
\* re.match("G(\d).*", line): anchored at the start of the line
MotionMatch(line) ==
    IF Len(line) >= 2 /\ line[1] = "G" /\ line[2] \in Digits
    THEN [m |-> TRUE, group |-> line[2]]
    ELSE [m |-> FALSE, group |-> ""]

\* re.match("G(5[4-9]).*", line): anchored at the start of the line
CsMatch(line) ==
    IF /\ Len(line) >= 3
       /\ line[1] = "G"
       /\ line[2] = "5"
       /\ line[3] \in {"4", "5", "6", "7", "8", "9"}
    THEN [m |-> TRUE, group |-> "5" \o line[3]]
    ELSE [m |-> FALSE, group |-> ""]

\* the maximal run of [-.\d] characters starting at index k
RECURSIVE NumRun(_, _)
NumRun(line, k) ==
    IF k <= Len(line) /\ line[k] \in NumChars
    THEN <<line[k]>> \o NumRun(line, k + 1)
    ELSE <<>>

\* re.match(".*" + axis + "([-.\d]+)", line): the greedy .* makes the match
\* end at the last occurrence of the axis letter that a [-.\d] follows
AxisMatch(line, axis) ==
    LET at == {k \in 1..Len(line) - 1 : line[k] = axis /\ line[k + 1] \in NumChars}
    IN  IF at = {} THEN [m |-> FALSE, group |-> <<>>]
        ELSE [m |-> TRUE, group |-> NumRun(line, Max(at) + 1)]

axes == <<"X", "Y", "Z">>

\* one pass of the body of "for i in range(0, 3)"
AxisStep(line, st, i) ==
    IF st.err THEN st
    ELSE LET m == AxisMatch(line, axes[i])
         IN  IF ~m.m THEN st
             ELSE LET a == ParseFloat(m.group)
                  IN  IF a.ok THEN [pos |-> [st.pos EXCEPT ![i] = a.val], err |-> FALSE]
                      ELSE [pos |-> st.pos, err |-> TRUE]

\* the loop "for i in range(0, 3)": err means float() raised ValueError
AxisLoop(line, p) ==
    AxisStep(line, AxisStep(line, AxisStep(line, [pos |-> p, err |-> FALSE], 1), 2), 3)

(***************************************************************************)
(* Inputs                                                                  *)
(***************************************************************************)
cs_offsets ==
    [n \in {"G54", "G55", "G56", "G57", "G58", "G59"} |->
        CASE n = "G54" -> <<Fixed(100), 0, 0>>
          [] n = "G55" -> <<Fixed(200), 0, 0>>
          [] n = "G56" -> <<0, Fixed(300), 0>>
          [] n = "G57" -> <<0, 0, Fixed(400)>>
          [] n = "G58" -> <<Fixed(500), Fixed(500), 0>>
          [] n = "G59" -> <<0, 0, 0>>]

LineSet ==
    { <<"G", "1", " ", "X", "1", "0">>,               \* G1 X10
      <<"Y", "5">>,                                   \* Y5
      <<"G", "5", "4">>,                              \* G54
      <<"X", "1">>,                                   \* X1
      <<"G", "5", "5">>,                              \* G55
      <<"X", "2">>,                                   \* X2
      <<"X", "1", " ", "Y", "1">>,                    \* X1 Y1
      <<"G", "0", " ", "X", "1">>,                    \* G0 X1
      <<"G", "1", " ", "G", "5", "5", " ", "X", "2">>, \* G1 G55 X2
      <<"X", "2", " ", "G", "5", "5", " ", "G", "0">>, \* X2 G55 G0
      <<"Z", "-", "1", ".", "5">>,                    \* Z-1.5
      <<"X", "-", " ", "Y", "1">>,                    \* X- Y1
      <<"X", "1", ".", "2", ".", "3">>,               \* X1.2.3
      <<"M", "3">>,                                   \* M3
      <<>> }                                          \* empty line

\* the programs quoted in the specification that are longer than MaxProg
ExamplePrograms ==
    { << <<"G", "5", "4">>, <<"X", "1">>, <<"G", "5", "5">>, <<"X", "2">> >>,
      << <<"G", "0", " ", "X", "1">>, <<"G", "5", "4">>, <<"X", "2">> >>,
      << <<"G", "1", " ", "X", "1", "0">>, <<"Y", "5">>, <<"G", "0", " ", "X", "1">>,
         <<"Z", "-", "1", ".", "5">> >> }

Programs == SeqsUpTo(LineSet, MaxProg) \cup ExamplePrograms

StartPositions == { <<0, 0, 0>>, <<Fixed(7), Fixed(8), Fixed(9)>> }

StartSystems == {"G54", "G55"}

\* capacity of self.data in the model (10000000 in the source)
DataCap == MaxProg + 3

colg0 == <<10, 10, 10, 10>>

colg1 == <<5, 5, 10, 10>>

ZeroElement == [position |-> <<0, 0, 0>>, color |-> <<0, 0, 0, 0>>]

(***************************************************************************)
(* Item.append and Item.upload                                             *)
(***************************************************************************)
append_noinc(d, n, p, c) ==
    [data |-> [d EXCEPT ![n] = [position |-> p, color |-> c]], elementcount |-> n]

append(d, n, p, c) ==
    [data |-> [d EXCEPT ![n] = [position |-> p, color |-> c]], elementcount |-> n + 1]

\* self.data = self.data[0:self.elementcount]
upload(d, n) == [k \in 0..n - 1 |-> d[k]]

(***************************************************************************)
(* GcodePath.__init__                                                      *)
(***************************************************************************)
GInit ==
    /\ gcode \in Programs
    /\ cwpos \in StartPositions
    /\ ccs \in StartSystems
    /\ pos = cwpos
    /\ cs = ccs
    /\ offset = cs_offsets[ccs]
    /\ motion = ""
    /\ col = <<>>
    /\ data = [k \in 0..DataCap - 1 |-> ZeroElement]
    /\ elementcount = 0
    /\ line_no = 0
    /\ gpc = "start"
    /\ FIdle
    /\ RIdle
    /\ SIdle

\* "start of line": the initial waypoint
GStart ==
    /\ gpc = "start"
    /\ LET r == append(data, elementcount, VecAdd(offset, pos), colg0)
       IN  /\ data' = r.data
           /\ elementcount' = r.elementcount
    /\ gpc' = "loop"
    /\ UNCHANGED <<gcode, cwpos, ccs, pos, cs, offset, motion, col, line_no>>
    /\ UNCHANGED <<fvars, rvars, svars, hvars>>

LineModal_rapiddefault(line, mo, c, off) ==
    LET mm   == MotionMatch(line)
        mo2  == IF mm.m THEN "G" \o mm.group ELSE mo
        mcs  == CsMatch(line)
        c2   == IF mcs.m THEN "G" \o mcs.group ELSE c
        off2 == IF mcs.m THEN cs_offsets[c2] ELSE off
    IN  [motion |-> mo2,
         col    |-> IF mo2 \in {"", "G0"} THEN colg0 ELSE colg1,
         cs     |-> c2,
         offset |-> off2]

\* the state of the locals after the motion and coordinate-system checks
LineModal(line, mo, c, off) ==
    LET mm   == MotionMatch(line)
        mo2  == IF mm.m THEN "G" \o mm.group ELSE mo
        mcs  == CsMatch(line)
        c2   == IF mcs.m THEN "G" \o mcs.group ELSE c
        off2 == IF mcs.m THEN cs_offsets[c2] ELSE off
    IN  [motion |-> mo2,
         col    |-> IF mo2 = "G0" THEN colg0 ELSE colg1,
         cs     |-> c2,
         offset |-> off2]

\* one iteration of "for line in gcode"
GLine ==
    /\ gpc = "loop"
    /\ line_no < Len(gcode)
    /\ LET line == gcode[line_no + 1]
           md   == LineModal(line, motion, cs, offset)
           ax   == AxisLoop(line, pos)
       IN  /\ motion' = md.motion
           /\ col' = md.col
           /\ cs' = md.cs
           /\ offset' = md.offset
           /\ pos' = ax.pos
           /\ IF ax.err
              THEN /\ gpc' = "error"
                   /\ UNCHANGED <<data, elementcount, line_no>>
              ELSE LET r == append(data, elementcount, VecAdd(md.offset, ax.pos), md.col)
                   IN  /\ data' = r.data
                       /\ elementcount' = r.elementcount
                       /\ line_no' = line_no + 1
                       /\ gpc' = "loop"
    /\ UNCHANGED <<gcode, cwpos, ccs>>
    /\ UNCHANGED <<fvars, rvars, svars, hvars>>

\* the program is exhausted: self.upload()
GUpload ==
    /\ gpc = "loop"
    /\ line_no = Len(gcode)
    /\ data' = upload(data, elementcount)
    /\ gpc' = "done"
    /\ UNCHANGED <<gcode, cwpos, ccs, pos, cs, offset, motion, col,
                   elementcount, line_no>>
    /\ UNCHANGED <<fvars, rvars, svars, hvars>>

GNext == GStart \/ GLine \/ GUpload

SpecGcode == GInit /\ [][GNext]_vars

(***************************************************************************)
(* RS232: write and cleanup                                                *)
(***************************************************************************)
\* the feed hold directive of cleanup()
FeedHold == <<"!", CR, LF>>

\* payloads the owner passes to write()
Payloads == { <<>>, <<"?">> }

\* bytes the device receives
RxChars == {"a", LF}

write_always(port, gone, t, d, by) ==
    IF port = "none"
    THEN [tx |-> t, exc |-> "AttributeError", touched |-> TRUE, diag |-> "sending"]
    ELSE IF port = "closed" \/ gone
    THEN [tx |-> t, exc |-> "SerialException", touched |-> TRUE, diag |-> "sending"]
    ELSE [tx |-> Append(t, [data |-> d, by |-> by]), exc |-> "none",
          touched |-> TRUE, diag |-> "sending"]

write_noraise(port, gone, t, d, by) ==
    IF Len(d) > 0
    THEN IF port = "open" /\ ~gone
         THEN [tx |-> Append(t, [data |-> d, by |-> by]), exc |-> "none",
               touched |-> TRUE, diag |-> "sending"]
         ELSE [tx |-> t, exc |-> "none", touched |-> TRUE, diag |-> "sending"]
    ELSE [tx |-> t, exc |-> "none", touched |-> FALSE, diag |-> "nothing to write"]

\* write(data) with self.serialport = port and t the bytes written so far.
\* self.serialport.write raises AttributeError when start() never set the
\* attribute, and the serial library's SerialException when the port is
\* closed or the device is gone; "by" records which method issued the write.
write(port, gone, t, d, by) ==
    IF Len(d) > 0
    THEN IF port = "none"
         THEN [tx |-> t, exc |-> "AttributeError", touched |-> TRUE, diag |-> "sending"]
         ELSE IF port = "closed" \/ gone
         THEN [tx |-> t, exc |-> "SerialException", touched |-> TRUE, diag |-> "sending"]
         ELSE [tx |-> Append(t, [data |-> d, by |-> by]), exc |-> "none",
               touched |-> TRUE, diag |-> "sending"]
    ELSE [tx |-> t, exc |-> "none", touched |-> FALSE, diag |-> "nothing to write"]

\* cleanup(): self.write("!\r\n")
cleanup(port, gone, t) == write(port, gone, t, FeedHold, "cleanup")

(***************************************************************************)
(* RS232: the owning process                                               *)
(***************************************************************************)
SInit ==
    /\ SIdle
    /\ RIdle
    /\ FIdle
    /\ GIdle

\* the owner calls write(data)
CallWrite ==
    /\ cpc = "idle"
    /\ n_calls < MaxCalls
    /\ \E d \in Payloads :
          LET r == write(serialport, device_gone, tx, d, "caller")
          IN  /\ tx' = r.tx
              /\ last_exc' = r.exc
              /\ touched' = r.touched
              /\ diag' = r.diag
              /\ last_call' = [op |-> "write", arg |-> d]
    /\ n_calls' = n_calls + 1
    /\ UNCHANGED <<serialport, serial_process, procs, rx, arrived, device_gone,
                   cpc, isalive, stop_ops>>
    /\ UNCHANGED <<gvars, fvars, rvars, hvars>>

\* the owner calls cleanup()
CallCleanup ==
    /\ cpc = "idle"
    /\ n_calls < MaxCalls
    /\ LET r == cleanup(serialport, device_gone, tx)
       IN  /\ tx' = r.tx
           /\ last_exc' = r.exc
           /\ touched' = r.touched
           /\ diag' = IF r.exc = "none" THEN "ready to be disconnected" ELSE r.diag
    /\ last_call' = [op |-> "cleanup", arg |-> <<>>]
    /\ n_calls' = n_calls + 1
    /\ UNCHANGED <<serialport, serial_process, procs, rx, arrived, device_gone,
                   cpc, isalive, stop_ops>>
    /\ UNCHANGED <<gvars, fvars, rvars, hvars>>

\* start(), line 17: serial.Serial(path, baud) opens the device or raises
CallStart ==
    /\ cpc = "idle"
    /\ n_calls < MaxCalls
    /\ last_call' = [op |-> "start", arg |-> <<>>]
    /\ n_calls' = n_calls + 1
    /\ touched' = FALSE
    /\ diag' = "connecting"
    /\ IF device_gone
       THEN /\ last_exc' = "SerialException"
            /\ UNCHANGED <<serialport, cpc>>
       ELSE /\ last_exc' = "none"
            /\ serialport' = "open"
            /\ cpc' = "start_flush"
    /\ n_starts' = n_starts + 1
    /\ UNCHANGED <<serial_process, procs, rx, arrived, device_gone, tx, isalive, stop_ops>>
    /\ UNCHANGED <<gvars, fvars, rvars, rx_at, pstamp, cb_by, stale_flushed>>

StartFlush_noflush ==
    /\ cpc = "start_flush"
    /\ touched' = TRUE
    /\ IF device_gone
       THEN /\ last_exc' = "SerialException"
            /\ cpc' = "idle"
       ELSE /\ cpc' = "start_spawn"
            /\ UNCHANGED last_exc
    /\ UNCHANGED <<rx, rx_at, stale_flushed>>
    /\ UNCHANGED <<serialport, serial_process, procs, arrived, device_gone, tx,
                   last_call, diag, isalive, stop_ops, n_calls>>
    /\ UNCHANGED <<gvars, fvars, rvars, n_starts, pstamp, cb_by>>

\* start(), lines 18-19: flushInput() and flushOutput()
StartFlush ==
    /\ cpc = "start_flush"
    /\ touched' = TRUE
    /\ IF device_gone
       THEN /\ last_exc' = "SerialException"
            /\ cpc' = "idle"
            /\ UNCHANGED <<rx, rx_at, stale_flushed>>
       ELSE /\ rx' = <<>>
            /\ rx_at' = <<>>
            /\ stale_flushed' = (stale_flushed
                                    \/ \E k \in 1..Len(rx_at) : rx_at[k] < n_starts)
            /\ cpc' = "start_spawn"
            /\ UNCHANGED last_exc
    /\ UNCHANGED <<serialport, serial_process, procs, arrived, device_gone, tx,
                   last_call, diag, isalive, stop_ops, n_calls>>
    /\ UNCHANGED <<gvars, fvars, rvars, n_starts, pstamp, cb_by>>

StartSpawn_inherit ==
    /\ cpc = "start_spawn"
    /\ procs' = Append(procs, [alive |-> TRUE, term |-> FALSE,
                               buf |-> IF procs = <<>> THEN buf_receive
                                       ELSE procs[Len(procs)].buf,
                               data |-> <<>>])
    /\ pstamp' = Append(pstamp, [since |-> n_starts,
                                 buf_stale |-> IF procs = <<>> THEN <<>>
                                               ELSE [k \in 1..Len(procs[Len(procs)].buf) |-> TRUE],
                                 data_stale |-> <<>>, dropped |-> FALSE])
    /\ serial_process' = Len(procs) + 1
    /\ cpc' = "idle"
    /\ UNCHANGED <<serialport, rx, arrived, device_gone, tx, last_call, last_exc,
                   touched, diag, isalive, stop_ops, n_calls>>
    /\ UNCHANGED <<gvars, fvars, rvars, n_starts, rx_at, cb_by, stale_flushed>>

\* start(), lines 20-23: after the sleep, launch the reader process; the
\* new process works on its own copy of the object, buf_receive included
StartSpawn ==
    /\ cpc = "start_spawn"
    /\ procs' = Append(procs, [alive |-> TRUE, term |-> FALSE,
                               buf |-> buf_receive, data |-> <<>>])
    /\ pstamp' = Append(pstamp, [since |-> n_starts, buf_stale |-> <<>>,
                                 data_stale |-> <<>>, dropped |-> FALSE])
    /\ serial_process' = Len(procs) + 1
    /\ cpc' = "idle"
    /\ UNCHANGED <<serialport, rx, arrived, device_gone, tx, last_call, last_exc,
                   touched, diag, isalive, stop_ops, n_calls>>
    /\ UNCHANGED <<gvars, fvars, rvars, n_starts, rx_at, cb_by, stale_flushed>>

StopPcAfter_closefirst(pc) ==
    CASE pc = "idle"           -> "stop_close"
      [] pc = "stop_close"     -> "stop_cleanup"
      [] pc = "stop_cleanup"   -> "stop_terminate"
      [] pc = "stop_terminate" -> "stop_sleep"
      [] pc = "stop_sleep"     -> "stop_check"
      [] pc = "stop_check"     -> "idle"

\* the statement of stop() that follows statement pc (idle: the call)
StopPcAfter(pc) ==
    CASE pc = "idle"           -> "stop_cleanup"
      [] pc = "stop_cleanup"   -> "stop_close"
      [] pc = "stop_close"     -> "stop_terminate"
      [] pc = "stop_terminate" -> "stop_sleep"
      [] pc = "stop_sleep"     -> "stop_check"
      [] pc = "stop_check"     -> "idle"

\* the owner calls stop()
CallStop ==
    /\ cpc = "idle"
    /\ n_calls < MaxCalls
    /\ cpc' = StopPcAfter("idle")
    /\ last_call' = [op |-> "stop", arg |-> <<>>]
    /\ last_exc' = "none"
    /\ touched' = FALSE
    /\ diag' = "none"
    /\ stop_ops' = <<>>
    /\ n_calls' = n_calls + 1
    /\ UNCHANGED <<serialport, serial_process, procs, rx, arrived, device_gone,
                   tx, isalive>>
    /\ UNCHANGED <<gvars, fvars, rvars, hvars>>

\* stop(), line 26: self.cleanup(); an exception ends the call
StopCleanup ==
    /\ cpc = "stop_cleanup"
    /\ LET r == cleanup(serialport, device_gone, tx)
       IN  /\ tx' = r.tx
           /\ last_exc' = r.exc
           /\ touched' = r.touched
           /\ IF r.exc = "none"
              THEN /\ cpc' = StopPcAfter("stop_cleanup")
                   /\ stop_ops' = Append(stop_ops, "feed_hold")
                   /\ diag' = "ready to be disconnected"
              ELSE /\ cpc' = "idle"
                   /\ diag' = r.diag
                   /\ UNCHANGED stop_ops
    /\ UNCHANGED <<serialport, serial_process, procs, rx, arrived, device_gone,
                   last_call, isalive, n_calls>>
    /\ UNCHANGED <<gvars, fvars, rvars, hvars>>

\* stop(), line 29: self.serialport.close()
StopClose ==
    /\ cpc = "stop_close"
    /\ touched' = TRUE
    /\ IF serialport = "none"
       THEN /\ last_exc' = "AttributeError"
            /\ cpc' = "idle"
            /\ UNCHANGED <<serialport, stop_ops>>
       ELSE /\ serialport' = "closed"
            /\ stop_ops' = Append(stop_ops, "close")
            /\ cpc' = StopPcAfter("stop_close")
            /\ UNCHANGED last_exc
    /\ UNCHANGED <<serial_process, procs, rx, arrived, device_gone, tx, last_call,
                   diag, isalive, n_calls>>
    /\ UNCHANGED <<gvars, fvars, rvars, hvars>>

\* stop(), line 30: self.serial_process.terminate()
StopTerminate ==
    /\ cpc = "stop_terminate"
    /\ IF serial_process = 0
       THEN /\ last_exc' = "AttributeError"
            /\ cpc' = "idle"
            /\ UNCHANGED <<procs, stop_ops>>
       ELSE /\ procs' = [procs EXCEPT ![serial_process].term = TRUE]
            /\ stop_ops' = Append(stop_ops, "terminate")
            /\ cpc' = StopPcAfter("stop_terminate")
            /\ UNCHANGED last_exc
    /\ UNCHANGED <<serialport, serial_process, rx, arrived, device_gone, tx,
                   last_call, touched, diag, isalive, n_calls>>
    /\ UNCHANGED <<gvars, fvars, rvars, hvars>>

\* stop(), line 31: time.sleep(1)
StopSleep ==
    /\ cpc = "stop_sleep"
    /\ stop_ops' = Append(stop_ops, "sleep")
    /\ cpc' = StopPcAfter("stop_sleep")
    /\ UNCHANGED <<serialport, serial_process, procs, rx, arrived, device_gone, tx,
                   last_call, last_exc, touched, diag, isalive, n_calls>>
    /\ UNCHANGED <<gvars, fvars, rvars, hvars>>

StopCheck_join ==
    /\ cpc = "stop_check"
    /\ ~procs[serial_process].alive
    /\ isalive' = FALSE
    /\ diag' = "terminated"
    /\ stop_ops' = Append(stop_ops, "is_alive")
    /\ cpc' = StopPcAfter("stop_check")
    /\ UNCHANGED <<serialport, serial_process, procs, rx, arrived, device_gone, tx,
                   last_call, last_exc, touched, n_calls>>
    /\ UNCHANGED <<gvars, fvars, rvars, hvars>>

\* stop(), lines 32-36: is_alive() and the log record that reports it
StopCheck ==
    /\ cpc = "stop_check"
    /\ isalive' = procs[serial_process].alive
    /\ diag' = IF procs[serial_process].alive THEN "not terminated" ELSE "terminated"
    /\ stop_ops' = Append(stop_ops, "is_alive")
    /\ cpc' = StopPcAfter("stop_check")
    /\ UNCHANGED <<serialport, serial_process, procs, rx, arrived, device_gone, tx,
                   last_call, last_exc, touched, n_calls>>
    /\ UNCHANGED <<gvars, fvars, rvars, hvars>>

\* the statements of a stop() call in progress
StopStep == StopCleanup \/ StopClose \/ StopTerminate \/ StopSleep \/ StopCheck

(***************************************************************************)
(* RS232: the reader processes (receiving) and the device                  *)
(***************************************************************************)
\* receiving(), lines 52-54: read(1), inWaiting(), read(waiting)
ReaderRead(i) ==
    /\ procs[i].alive
    /\ procs[i].data = <<>>
    /\ ~device_gone
    /\ rx # <<>>
    /\ procs' = [procs EXCEPT ![i].data = rx]
    /\ rx' = <<>>
    /\ pstamp' = [pstamp EXCEPT
                     ![i].data_stale = [k \in 1..Len(rx_at) |-> rx_at[k] < pstamp[i].since]]
    /\ rx_at' = <<>>
    /\ UNCHANGED <<serialport, serial_process, arrived, device_gone, tx, cpc,
                   last_call, last_exc, touched, diag, isalive, stop_ops, n_calls>>
    /\ UNCHANGED <<gvars, fvars, rvars, n_starts, cb_by, stale_flushed>>

\* handle_data(), one pass of its loop, in the reader process
ReaderHandle(i) ==
    /\ procs[i].alive
    /\ procs[i].data # <<>>
    /\ LET r == handle_data(procs[i].buf, cb_calls, <<Head(procs[i].data)>>)
       IN  /\ procs' = [procs EXCEPT ![i].buf = r.buf, ![i].data = Tail(procs[i].data)]
           /\ cb_calls' = r.calls
           /\ cb_by' = IF Len(r.calls) > Len(cb_calls) THEN Append(cb_by, i) ELSE cb_by
           /\ pstamp' = [pstamp EXCEPT
                 ![i].buf_stale = IF r.buf = <<>> THEN <<>>
                                  ELSE Append(pstamp[i].buf_stale, Head(pstamp[i].data_stale)),
                 ![i].data_stale = Tail(pstamp[i].data_stale)]
    /\ UNCHANGED buf_receive
    /\ UNCHANGED svarsButProcs
    /\ UNCHANGED <<gvars, fvars, n_starts, rx_at, stale_flushed>>

ReaderExit_flush(i) ==
    /\ procs[i].alive
    /\ procs[i].term
    /\ procs' = [procs EXCEPT ![i].alive = FALSE, ![i].buf = <<>>, ![i].data = <<>>]
    /\ pstamp' = [pstamp EXCEPT ![i].buf_stale = <<>>, ![i].data_stale = <<>>,
                                ![i].dropped = procs[i].data # <<>>]
    /\ cb_calls' = IF procs[i].buf = <<>> THEN cb_calls
                   ELSE Append(cb_calls, strip(procs[i].buf))
    /\ cb_by' = IF procs[i].buf = <<>> THEN cb_by ELSE Append(cb_by, i)
    /\ UNCHANGED svarsButProcs
    /\ UNCHANGED <<gvars, fvars, buf_receive, n_starts, rx_at, stale_flushed>>

\* the termination request takes effect: the process is gone, and with it
\* its accumulator and the bytes it had read
ReaderExit(i) ==
    /\ procs[i].alive
    /\ procs[i].term
    /\ procs' = [procs EXCEPT ![i].alive = FALSE, ![i].buf = <<>>, ![i].data = <<>>]
    /\ pstamp' = [pstamp EXCEPT ![i].buf_stale = <<>>, ![i].data_stale = <<>>,
                                ![i].dropped = (procs[i].buf # <<>> \/ procs[i].data # <<>>)]
    /\ UNCHANGED svarsButProcs
    /\ UNCHANGED <<gvars, fvars, rvars, n_starts, rx_at, cb_by, stale_flushed>>

\* receiving(), line 52: read(1) raises because the device is gone; nothing
\* catches it and the reader process ends
ReaderCrash(i) ==
    /\ procs[i].alive
    /\ procs[i].data = <<>>
    /\ device_gone
    /\ procs' = [procs EXCEPT ![i].alive = FALSE, ![i].buf = <<>>]
    /\ pstamp' = [pstamp EXCEPT ![i].buf_stale = <<>>, ![i].dropped = procs[i].buf # <<>>]
    /\ UNCHANGED svarsButProcs
    /\ UNCHANGED <<gvars, fvars, rvars, n_starts, rx_at, cb_by, stale_flushed>>

\* a byte arrives at the device
Arrive ==
    /\ ~device_gone
    /\ arrived < MaxArrive
    /\ \E c \in RxChars : rx' = Append(rx, c)
    /\ rx_at' = Append(rx_at, n_starts)
    /\ arrived' = arrived + 1
    /\ UNCHANGED <<serialport, serial_process, procs, device_gone, tx, cpc,
                   last_call, last_exc, touched, diag, isalive, stop_ops, n_calls>>
    /\ UNCHANGED <<gvars, fvars, rvars, n_starts, pstamp, cb_by, stale_flushed>>

\* the device disappears (unplugged)
DeviceGone ==
    /\ ~device_gone
    /\ device_gone' = TRUE
    /\ UNCHANGED <<serialport, serial_process, procs, rx, arrived, tx, cpc,
                   last_call, last_exc, touched, diag, isalive, stop_ops, n_calls>>
    /\ UNCHANGED <<gvars, fvars, rvars, hvars>>

Reader ==
    \E i \in 1..Len(procs) :
        ReaderRead(i) \/ ReaderHandle(i) \/ ReaderExit(i) \/ ReaderCrash(i)

SNext ==
    \/ CallStart \/ StartFlush \/ StartSpawn
    \/ CallWrite \/ CallCleanup
    \/ CallStop \/ StopStep
    \/ Reader
    \/ Arrive \/ DeviceGone

SpecSerial == SInit /\ [][SNext]_vars

(***************************************************************************)
(* The token grammar of the specification, used to state the claims:       *)
(* tokens are separated by blanks; G0/G1 select the motion mode, G54..G59  *)
(* the coordinate system, and an axis letter followed by a signed decimal  *)
(* gives that axis a value.                                                *)
(***************************************************************************)
RECURSIVE Tokens(_)
Tokens(line) ==
    IF line = <<>> THEN <<>>
    ELSE LET sp == {k \in 1..Len(line) : line[k] = " "}
         IN  IF sp = {} THEN <<line>>
             ELSE LET k    == CHOOSE q \in sp : \A z \in sp : q <= z
                      rest == Tokens(SubSeq(line, k + 1, Len(line)))
                  IN  IF k = 1 THEN rest ELSE <<SubSeq(line, 1, k - 1)>> \o rest

\* the motion mode the line selects ("" when it selects none)
TokMotion(line) ==
    LET t == Tokens(line)
        at == {k \in 1..Len(t) : t[k] \in {<<"G", "0">>, <<"G", "1">>}}
    IN  IF at = {} THEN "" ELSE "G" \o t[Max(at)][2]

\* the coordinate system the line selects ("" when it selects none)
TokCs(line) ==
    LET t == Tokens(line)
        at == {k \in 1..Len(t) : /\ Len(t[k]) = 3
                                 /\ t[k][1] = "G"
                                 /\ t[k][2] = "5"
                                 /\ t[k][3] \in {"4", "5", "6", "7", "8", "9"}}
    IN  IF at = {} THEN "" ELSE "G5" \o t[Max(at)][3]

\* the numeric value the line carries for an axis, if any
TokAxis(line, axis) ==
    LET t == Tokens(line)
        at == {k \in 1..Len(t) : /\ Len(t[k]) >= 2
                                 /\ t[k][1] = axis
                                 /\ \A j \in 2..Len(t[k]) : t[k][j] \in NumChars
                                 /\ ParseFloat(Tail(t[k])).ok}
    IN  IF at = {} THEN [has |-> FALSE, val |-> 0]
        ELSE [has |-> TRUE, val |-> ParseFloat(Tail(t[Max(at)])).val]

\* the motion mode in force after the first k lines ("" while none selected)
RECURSIVE WantMotion(_, _)
WantMotion(prog, k) ==
    IF k = 0 THEN ""
    ELSE IF TokMotion(prog[k]) # "" THEN TokMotion(prog[k])
         ELSE WantMotion(prog, k - 1)

\* the coordinate system in force after the first k lines
RECURSIVE WantCs(_, _, _)
WantCs(prog, k, c0) ==
    IF k = 0 THEN c0
    ELSE IF TokCs(prog[k]) # "" THEN TokCs(prog[k])
         ELSE WantCs(prog, k - 1, c0)

Emits == gpc = "start" \/ line_no' = line_no + 1

(***************************************************************************)
(* Claims about the interpreter                                            *)
(***************************************************************************)
\* C2: every emitted waypoint has position cs_offsets[cs] + pos with the
\* values of cs and pos at the moment of emission; each emission appends
\* exactly one element, and no later step (a coordinate-system switch in
\* particular, or upload) changes a waypoint already emitted.
C2_WaypointsFrozen ==
    [][ /\ elementcount' >= elementcount
        /\ \A k \in 0..elementcount - 1 : data'[k] = data[k]
        /\ Emits => /\ elementcount' = elementcount + 1
                    /\ data'[elementcount].position = VecAdd(cs_offsets[cs'], pos')
      ]_vars

\* C2 witness: the run finished with at least three waypoints, the
\* coordinate system was switched on the way, and the first waypoint still
\* carries the offset of the initial system.
C2_Witness ==
    /\ gpc = "done"
    /\ elementcount >= 3
    /\ cs # ccs
    /\ data[0].position = VecAdd(cs_offsets[ccs], cwpos)
    /\ data[elementcount - 1].position = VecAdd(cs_offsets[cs], pos)

\* C3 (as claimed): a program of n lines yields exactly n+1 waypoints, the
\* first being cs_offsets[ccs] + cwpos tagged rapid and emitted before any
\* line, and waypoint k+1 being the one of line k.
C3_Claim ==
    /\ gpc # "start" =>
          /\ elementcount = line_no + 1
          /\ data[0] = [position |-> VecAdd(cs_offsets[ccs], cwpos), color |-> colg0]
    /\ gpc \in {"done", "error"} => elementcount = Len(gcode) + 1

\* C4 (as claimed): once a line has selected G0 or G1, its waypoint and
\* every following one carry that mode's tag until another line selects a
\* motion mode.
C4_Claim ==
    \A k \in 1..elementcount - 1 :
        LET m == WantMotion(gcode, k)
        IN  m # "" => data[k].color = (IF m = "G0" THEN colg0 ELSE colg1)

\* C5 (as claimed): after each line the active coordinate system is the one
\* selected most recently (the initial one when none was selected), and its
\* offset is the one in use.
C5_Claim ==
    gpc \in {"loop", "done"} =>
        /\ cs = WantCs(gcode, line_no, ccs)
        /\ offset = cs_offsets[WantCs(gcode, line_no, ccs)]

\* C6 (as claimed): after each line every axis for which the line carries a
\* numeric value holds that value, and every other axis holds the value it
\* had before the line.
C6_Claim ==
    [][ (gpc = "loop" /\ line_no < Len(gcode)) =>
            \A i \in 1..3 :
                LET t == TokAxis(gcode[line_no + 1], axes[i])
                IN  pos'[i] = (IF t.has THEN t.val ELSE pos[i])
      ]_vars

(***************************************************************************)
(* Claims about line framing                                               *)
(***************************************************************************)
\* the indices of the line terminators of s
LFPos(s) == {k \in 1..Len(s) : s[k] = LF}

\* the lines s holds: one per terminator, in order, each being the trimmed
\* characters between the previous terminator and its own
WantLines(s) ==
    [j \in 1..Cardinality(LFPos(s)) |->
        LET q    == CHOOSE e \in LFPos(s) : Cardinality({z \in LFPos(s) : z < e}) = j - 1
            prev == IF j = 1 THEN 0 ELSE Max({z \in LFPos(s) : z < q})
        IN  strip(SubSeq(s, prev + 1, q))]

\* the characters of s after its last terminator
WantRest(s) ==
    SubSeq(s, (IF LFPos(s) = {} THEN 0 ELSE Max(LFPos(s))) + 1, Len(s))

\* C1: however the stream is split into chunks, after any number of
\* handle_data calls the callback invocations are those of the unsplit
\* bytes fed so far: one per newline-terminated line, in order, each the
\* trimmed characters since the previous terminator; "ok\r\n" gives
\* <<ok>> and "ok\r\nalarm\r\n" gives <<ok, alarm>>.
C1_ChunkingIrrelevant ==
    LET sofar == SubSeq(stream, 1, fed)
    IN  /\ cb_calls = WantLines(sofar)
        /\ buf_receive = WantRest(sofar)
        /\ cb_calls = handle_data(<<>>, <<>>, sofar).calls
        /\ (stream = StreamOk /\ fed = Len(stream)) => cb_calls = << <<"o", "k">> >>
        /\ (stream = StreamOkAlarm /\ fed = Len(stream)) =>
               cb_calls = << <<"o", "k">>, <<"a", "l", "a", "r", "m">> >>

\* C1 witness: the two-line stream was fed completely in four or more
\* chunks and both lines were delivered.
C1_Witness ==
    /\ stream = StreamOkAlarm
    /\ fed = Len(stream)
    /\ n_chunks >= 4
    /\ cb_calls = << <<"o", "k">>, <<"a", "l", "a", "r", "m">> >>

(***************************************************************************)
(* Claims about the channel                                                *)
(***************************************************************************)
\* a stop() call is in progress
InStop == cpc \in {"stop_cleanup", "stop_close", "stop_terminate", "stop_sleep", "stop_check"}

\* the last stop() call has returned normally
StopReturned == cpc = "idle" /\ last_call.op = "stop" /\ last_exc = "none"

\* Disconnected: the device handle is closed (or was never opened)
Disconnected == serialport # "open"

\* Active: the device handle is open and the device is reachable
Active == serialport = "open" /\ ~device_gone

\* the operations of a complete stop(), in order
StopOps == <<"feed_hold", "close", "terminate", "sleep", "is_alive">>

IsPrefix(s, t) == Len(s) <= Len(t) /\ s = SubSeq(t, 1, Len(s))

\* the step is the owner's call write(d)
IsWrite(d) == n_calls' = n_calls + 1 /\ last_call' = [op |-> "write", arg |-> d]

\* the step is a cleanup(), called by the owner or by stop()
IsCleanup ==
    \/ n_calls' = n_calls + 1 /\ last_call'.op = "cleanup"
    \/ cpc = "stop_cleanup" /\ cpc' # cpc

\* C7: stop() never waits for anything: while a stop() is in progress its
\* next statement can always be executed, whatever the reader does, and a
\* call performs at most five operations.  When it has returned, the device
\* handle is closed, termination of the reader was requested, and the
\* diagnostic is "not terminated" exactly when the reader was still alive
\* at the check and "terminated" when it was not.
C7_StopReturns ==
    /\ [](InStop => ENABLED StopStep)
    /\ [](Len(stop_ops) <= Len(StopOps))
    /\ [](StopReturned =>
             /\ Disconnected
             /\ serialport = "closed"
             /\ procs[serial_process].term
             /\ diag = (IF isalive THEN "not terminated" ELSE "terminated"))
    /\ [][(cpc = "stop_check" /\ cpc' # cpc) =>
             /\ cpc' = "idle"
             /\ isalive' = procs[serial_process].alive
             /\ diag' = (IF procs[serial_process].alive THEN "not terminated"
                         ELSE "terminated")]_vars

\* C7 witness: stop() has returned although the reader is still alive; the
\* handle is closed and the timeout diagnostic was emitted.
C7_Witness ==
    /\ StopReturned
    /\ isalive
    /\ procs[serial_process].alive
    /\ serialport = "closed"
    /\ diag = "not terminated"

\* C8: the operations of a stop() call are always a prefix of: feed hold
\* written, handle closed, termination requested, sleep, liveness check;
\* a call that returns has performed all five, each once.  The device is
\* written only through an open handle, a cleanup writes nothing but the
\* feed hold directive, and the channel writes on its own account only in
\* cleanup().
C8_StopOrder ==
    /\ [](IsPrefix(stop_ops, StopOps))
    /\ [](StopReturned => stop_ops = StopOps)
    /\ [][tx' # tx =>
             /\ serialport = "open"
             /\ serialport' = "open"
             /\ \E e \in {[data |-> d, by |-> b] : d \in Payloads \cup {FeedHold},
                                                  b \in {"caller", "cleanup"}} :
                   /\ tx' = Append(tx, e)
                   /\ e.by = "cleanup" <=> IsCleanup
                   /\ e.by = "caller" <=> IsWrite(e.data)
                   /\ e.by = "cleanup" => e.data = FeedHold
                   /\ InStop => /\ stop_ops = <<>>
                                /\ stop_ops' = <<"feed_hold">>]_vars
    /\ [][stop_ops' = Append(stop_ops, "feed_hold") =>
             tx' = Append(tx, [data |-> FeedHold, by |-> "cleanup"])]_vars

\* C8 witness: a stop() has returned after all five operations, and the
\* last thing written to the device is the feed hold directive of cleanup.
C8_Witness ==
    /\ StopReturned
    /\ stop_ops = StopOps
    /\ tx # <<>>
    /\ tx[Len(tx)] = [data |-> FeedHold, by |-> "cleanup"]
    /\ serialport = "closed"

\* C9: a write of the empty payload, in any state of the channel, sends
\* nothing, does not evaluate self.serialport, raises nothing and leaves
\* the handle, the reader processes and the owner's position unchanged.
C9_EmptyWriteNoop ==
    [][IsWrite(<<>>) =>
          /\ tx' = tx
          /\ ~touched'
          /\ last_exc' = "none"
          /\ serialport' = serialport
          /\ serial_process' = serial_process
          /\ procs' = procs
          /\ rx' = rx
          /\ cpc' = cpc
          /\ diag' = "nothing to write"]_vars

\* C9 witness: the empty write was made on a stopped channel (handle
\* closed) after something had been sent, and raised nothing.
C9_Witness ==
    /\ last_call = [op |-> "write", arg |-> <<>>]
    /\ last_exc = "none"
    /\ serialport = "closed"
    /\ tx # <<>>
    /\ cpc = "idle"

\* C10 (as claimed): every write or cleanup on a channel that is not Active
\* raises and sends nothing; an Active non-empty write sends exactly its
\* payload and returns at once.
C10_Claim ==
    [][/\ \A d \in Payloads :
            (IsWrite(d) /\ ~Active) => (last_exc' # "none" /\ tx' = tx)
       /\ (IsCleanup /\ ~Active) => (last_exc' # "none" /\ tx' = tx)
       /\ \A d \in Payloads \ {<<>>} :
            (IsWrite(d) /\ Active) =>
               /\ tx' = Append(tx, [data |-> d, by |-> "caller"])
               /\ last_exc' = "none"
               /\ cpc' = "idle"
               /\ rx' = rx]_vars

\* C10 (amended): a NON-EMPTY write, or a cleanup, on a channel that is not
\* Active raises (AttributeError when start() never ran, the serial
\* library's SerialException when the handle is closed or the device is
\* gone) and sends nothing; an Active non-empty write sends exactly its
\* payload and returns at once, reading nothing from the device.
C10_NonEmptyWrite ==
    [][/\ \A d \in Payloads \ {<<>>} :
            (IsWrite(d) /\ ~Active) =>
               /\ last_exc' = (IF serialport = "none" THEN "AttributeError"
                               ELSE "SerialException")
               /\ tx' = tx
       /\ (IsCleanup /\ ~Active) =>
               /\ last_exc' = (IF serialport = "none" THEN "AttributeError"
                               ELSE "SerialException")
               /\ tx' = tx
       /\ \A d \in Payloads \ {<<>>} :
            (IsWrite(d) /\ Active) =>
               /\ tx' = Append(tx, [data |-> d, by |-> "caller"])
               /\ last_exc' = "none"
               /\ cpc' = "idle"
               /\ rx' = rx]_vars

\* C10 witness: a non-empty write on a stopped channel has raised and the
\* device has seen nothing but the feed hold of the stop().
C10_Witness ==
    /\ last_call = [op |-> "write", arg |-> <<"?">>]
    /\ last_exc = "SerialException"
    /\ serialport = "closed"
    /\ ~device_gone
    /\ tx = << [data |-> FeedHold, by |-> "cleanup"] >>

\* the step is the owner's call start()
IsStart == n_calls' = n_calls + 1 /\ last_call'.op = "start"

\* the step is a read of reader process i
IsRead(i) == i <= Len(procs) /\ procs[i].data = <<>> /\ procs'[i].data # <<>>

\* C11: a start() whose device cannot be opened raises at once (one attempt),
\* launches no reader and leaves the handle as it was, so a Disconnected
\* channel stays Disconnected.  A reader is launched only by a start() that
\* opened the device and flushed it, and no reader ever reads a byte that
\* arrived before the start() call that launched it.
C11_StartOpensOrFails ==
    /\ [][(IsStart /\ device_gone) =>
             /\ last_exc' = "SerialException"
             /\ cpc' = "idle"
             /\ procs' = procs
             /\ serial_process' = serial_process
             /\ serialport' = serialport
             /\ Disconnected => Disconnected']_vars
    /\ [][Len(procs') > Len(procs) =>
             /\ cpc = "start_spawn"
             /\ last_call.op = "start"
             /\ serialport = "open"
             /\ \A k \in 1..Len(rx_at) : rx_at[k] >= n_starts
             /\ procs'[Len(procs')].data = <<>>]_vars
    /\ [][\A i \in 1..Len(procs) :
             IsRead(i) => \A k \in 1..Len(rx_at) : rx_at[k] >= pstamp[i].since]_vars

\* C11 witness: a first start() discarded a byte that had arrived before it
\* and its reader has delivered the line that arrived later; after a stop() the
\* device went away and the next start() failed at the open, leaving the
\* channel Disconnected with no second reader.
C11_Witness ==
    /\ last_call.op = "start"
    /\ last_exc = "SerialException"
    /\ ~touched
    /\ cpc = "idle"
    /\ Disconnected
    /\ Len(procs) = 1
    /\ stale_flushed
    /\ arrived = 2
    /\ rx = <<>>
    /\ cb_by = <<1>>

(***************************************************************************)
(* Claims about the token classes of the interpreter                       *)
(***************************************************************************)
\* the step is one pass of the loop over the program lines
IsLine == gpc = "loop" /\ line_no < Len(gcode)

\* the line that pass works on
ThisLine == gcode[line_no + 1]

\* the tag of a motion mode
TagOf(m) == IF m = "G0" THEN colg0 ELSE colg1

\* C12 (as claimed): the motion mode is only ever unset, G0 or G1, and a
\* line that selects a coordinate system and no motion mode leaves the
\* motion mode as it was and has its waypoint tagged as the mode in force
\* before the line.
C12_Claim ==
    /\ [](motion \in {"", "G0", "G1"})
    /\ [][(IsLine /\ TokCs(ThisLine) # "" /\ TokMotion(ThisLine) = "") =>
             /\ motion' = motion
             /\ cs' = TokCs(ThisLine)
             /\ line_no' = line_no + 1 => data'[elementcount].color = TagOf(motion)]_vars

\* C13 (as claimed): a line that carries a motion mode, a coordinate system
\* and at least one axis value, in any order, yields a waypoint with the
\* tag of that mode, at that system's offset plus the position the line's
\* axis values give.
C13_Claim ==
    [][(/\ IsLine
        /\ TokMotion(ThisLine) # ""
        /\ TokCs(ThisLine) # ""
        /\ \E i \in 1..3 : TokAxis(ThisLine, axes[i]).has) =>
          LET want == [i \in 1..3 |->
                          IF TokAxis(ThisLine, axes[i]).has
                          THEN TokAxis(ThisLine, axes[i]).val ELSE pos[i]]
          IN  /\ line_no' = line_no + 1
              /\ data'[elementcount] =
                    [position |-> VecAdd(cs_offsets[TokCs(ThisLine)], want),
                     color    |-> TagOf(TokMotion(ThisLine))]]_vars

\* C14 (as claimed): no line makes the run fail; every line, malformed or
\* not, yields exactly one waypoint, and an axis for which the line carries
\* no well-formed value keeps its value.
C14_Claim ==
    /\ [](gpc # "error")
    /\ [][IsLine =>
             /\ gpc' = "loop"
             /\ line_no' = line_no + 1
             /\ elementcount' = elementcount + 1
             /\ \A i \in 1..3 :
                   ~TokAxis(ThisLine, axes[i]).has => pos'[i] = pos[i]]_vars

\* C20: the waypoint of a line is tagged rapid exactly when the motion
\* variable holds G0 after the line's motion check, and feed otherwise, the
\* unset motion mode included; the initial waypoint is tagged rapid.  So
\* the waypoints of the lines that precede the first line carrying a motion
\* token are tagged feed.
C20_TagFollowsMotion ==
    /\ [][(IsLine /\ line_no' = line_no + 1) =>
             /\ data'[elementcount].color = TagOf(motion')
             /\ data'[elementcount].color = colg0 <=> motion' = "G0"
             /\ col' = data'[elementcount].color]_vars
    /\ [](gpc # "start" => data[0].color = colg0)
    /\ [](\A k \in 1..elementcount - 1 :
             (\A j \in 1..k : TokMotion(gcode[j]) = "") =>
                 /\ data[k].color = colg1
                 /\ data[k].color # data[0].color)

\* C20 witness: a finished run in which the motion mode is still unset: the
\* initial waypoint is tagged rapid and the waypoints of both lines feed.
C20_Witness ==
    /\ gpc = "done"
    /\ motion = ""
    /\ elementcount = 3
    /\ data[0].color = colg0
    /\ data[1].color = colg1
    /\ data[2].color = colg1

(***************************************************************************)
(* Claims about the reader processes and the life cycle of the channel     *)
(***************************************************************************)
\* the step is one pass of handle_data's loop in reader process i
IsHandle(i) ==
    /\ procs[i].alive
    /\ procs'[i].alive
    /\ procs[i].data # <<>>
    /\ procs'[i].data = Tail(procs[i].data)

\* the step ends reader process i
Ends(i) == procs[i].alive /\ ~procs'[i].alive

\* C15: the callback is invoked only by a living reader at the moment it
\* consumes a newline it has read, with the stripped accumulator of that
\* reader up to that newline, and the accumulator is then empty.  The step
\* that ends a reader invokes no callback and discards its accumulator and
\* the bytes it had read, and a reader that has ended holds nothing.
C15_NoPartialLine ==
    /\ [][cb_calls' # cb_calls =>
             \E i \in 1..Len(procs) :
                /\ IsHandle(i)
                /\ Head(procs[i].data) = LF
                /\ cb_calls' = Append(cb_calls, strip(Append(procs[i].buf, LF)))
                /\ procs'[i].buf = <<>>]_vars
    /\ [][\A i \in 1..Len(procs) :
             Ends(i) => /\ cb_calls' = cb_calls
                        /\ procs'[i].buf = <<>>
                        /\ procs'[i].data = <<>>]_vars
    /\ [](\A i \in 1..Len(procs) :
             ~procs[i].alive => procs[i].buf = <<>> /\ procs[i].data = <<>>)
    /\ [](Len(cb_calls) <= arrived)

\* C15 witness: a reader delivered the line ended by the first newline,
\* then accumulated a byte without newline and was terminated by stop();
\* that byte was dropped and no second callback was made.
C15_Witness ==
    /\ StopReturned
    /\ arrived = 2
    /\ rx = <<>>
    /\ Len(procs) = 1
    /\ ~procs[1].alive
    /\ procs[1].term
    /\ pstamp[1].dropped
    /\ cb_by = <<1>>

\* the reader the channel refers to has ended without having been asked to
ReaderFailed ==
    /\ serial_process # 0
    /\ ~procs[serial_process].alive
    /\ ~procs[serial_process].term

\* the step is the owner's call stop()
IsStop == n_calls' = n_calls + 1 /\ last_call'.op = "stop"

\* C16 (as claimed): a read error ends the reader without disturbing the
\* owner, and from then on the channel counts as down: when the owner next
\* calls stop() or writes a payload, the channel is Disconnected, and the
\* write fails and sends nothing.
C16_Claim ==
    /\ [][\A i \in 1..Len(procs) :
             (Ends(i) /\ ~procs[i].term) =>
                 UNCHANGED <<cpc, last_call, last_exc, n_calls>>]_vars
    /\ [][(ReaderFailed /\ IsStop) => Disconnected]_vars
    /\ [][\A d \in Payloads \ {<<>>} :
             (ReaderFailed /\ IsWrite(d)) =>
                 /\ Disconnected
                 /\ last_exc' # "none"
                 /\ tx' = tx]_vars

\* C17 (as claimed): at most one reader that has not been asked to
\* terminate is running at any time, and when stop() has returned every
\* reader the channel launched has been asked to terminate.
C17_Claim ==
    /\ Cardinality({i \in 1..Len(procs) : procs[i].alive /\ ~procs[i].term}) <= 1
    /\ StopReturned => \A i \in 1..Len(procs) : procs[i].term

\* C18: every reader starts from an empty accumulator, the owner's copy of
\* the accumulator stays empty, no byte a reader holds arrived before the
\* start() that launched it, and so every line a reader delivers consists
\* of bytes that arrived after that start().
C18_FreshAccumulator ==
    /\ [][Len(procs') > Len(procs) =>
             /\ procs'[Len(procs')].buf = <<>>
             /\ pstamp'[Len(procs')].since = n_starts
             /\ n_starts >= Len(procs')]_vars
    /\ [](buf_receive = <<>>)
    /\ [](\A i \in 1..Len(procs) :
             /\ Len(pstamp[i].buf_stale) = Len(procs[i].buf)
             /\ Len(pstamp[i].data_stale) = Len(procs[i].data)
             /\ \A k \in 1..Len(procs[i].buf) : ~pstamp[i].buf_stale[k]
             /\ \A k \in 1..Len(procs[i].data) : ~pstamp[i].data_stale[k])
    /\ [][\A i \in 1..Len(procs) :
             (IsHandle(i) /\ cb_calls' # cb_calls) =>
                 /\ cb_by' = Append(cb_by, i)
                 /\ Len(cb_calls'[Len(cb_calls')]) <= Len(procs[i].buf)]_vars

\* C18 witness: the first reader was terminated by stop() while it held a
\* byte of an unfinished line; after the second start() the newline arrived
\* and the second reader delivered its first line, which is empty.
C18_Witness ==
    /\ Len(procs) = 2
    /\ ~procs[1].alive
    /\ pstamp[1].dropped
    /\ n_starts = 2
    /\ arrived = 2
    /\ ~stale_flushed
    /\ cb_by = <<2>>
    /\ cb_calls = << <<>> >>

\* C19 (as claimed): whenever a stop() call is over, however it ended, the
\* device handle is not open and the reader the channel refers to, if any,
\* has been asked to terminate.
C19_Claim ==
    (cpc = "idle" /\ last_call.op = "stop") =>
        /\ serialport # "open"
        /\ serial_process # 0 => procs[serial_process].term

====
